---- MODULE Spec2Model ----
(***************************************************************************)
(* Model of the pomidor lexer: the token classifier of src/token/mod.rs    *)
(* and the streaming scanner (LexerIterator) of src/lexer/mod.rs.          *)
(*                                                                         *)
(* A character is a one-element string.  Characters outside ASCII are      *)
(* written by code point ("U+0431" is CYRILLIC SMALL LETTER BE).  The      *)
(* input is a sequence of characters; offsets are BYTE offsets into its    *)
(* UTF-8 encoding, as in the source.                                       *)
(***************************************************************************)
EXTENDS Integers, Sequences, FiniteSets, TLC

\* ------------------------------------------------------------------------
\* Bounds of the exploration
\* ------------------------------------------------------------------------
\* longest enumerated input, in characters
MaxLen == 3
\* requests still made after the scanner has yielded nothing
MaxDone == 2

\* ------------------------------------------------------------------------
\* Characters: UTF-8 width and the Unicode classes the code relies on
\* ------------------------------------------------------------------------
AsciiLower ==
    {"a", "b", "c", "d", "e", "f", "g", "h", "i", "j", "k", "l", "m",
     "n", "o", "p", "q", "r", "s", "t", "u", "v", "w", "x", "y", "z"}
AsciiUpper ==
    {"A", "B", "C", "D", "E", "F", "G", "H", "I", "J", "K", "L", "M",
     "N", "O", "P", "Q", "R", "S", "T", "U", "V", "W", "X", "Y", "Z"}
AsciiLetter == AsciiLower \cup AsciiUpper
AsciiDigit == {"0", "1", "2", "3", "4", "5", "6", "7", "8", "9"}

\* U+00A0 NO-BREAK SPACE, U+0431 and U+0440 Cyrillic letters,
\* U+0663 ARABIC-INDIC DIGIT THREE (all two bytes)
TwoByteChars == {"U+00A0", "U+0431", "U+0440", "U+0663"}
\* U+2028 LINE SEPARATOR, U+20AC EURO SIGN (three bytes)
ThreeByteChars == {"U+2028", "U+20AC"}

\* char::len_utf8
len_utf8(ch) ==
    IF ch \in TwoByteChars THEN 2
    ELSE IF ch \in ThreeByteChars THEN 3
    ELSE 1

\* char::is_whitespace: the Unicode White_Space property
is_whitespace(ch) == ch \in {" ", "\t", "\n", "\r", "U+00A0", "U+2028"}

\* the regex crate's \w (Unicode is on by default): Alphabetic, Mark,
\* Decimal_Number, Connector_Punctuation, Join_Control
Regex_w(ch) ==
    ch \in AsciiLetter \cup AsciiDigit \cup {"_", "U+0431", "U+0440", "U+0663"}

\* the regex crate's \d (Unicode is on by default): Decimal_Number
Regex_d(ch) == ch \in AsciiDigit \cup {"U+0663"}

\* ------------------------------------------------------------------------
\* &str: length and slicing by byte offset
\* ------------------------------------------------------------------------
\* byte offset at which the k-th character starts (k = Len(s)+1: the end):
\* the sum of len_utf8 over the characters before it, every width being
\* 1, 2 or 3
ByteOff(s, k) ==
    (k - 1) + Cardinality({i \in 1..(k - 1) : len_utf8(s[i]) >= 2})
            + Cardinality({i \in 1..(k - 1) : len_utf8(s[i]) >= 3})

\* str::len, in bytes
str_len(s) == ByteOff(s, Len(s) + 1)

is_char_boundary(s, off) == \E k \in 1..(Len(s) + 1) : ByteOff(s, k) = off

CharIdx(s, off) == CHOOSE k \in 1..(Len(s) + 1) : ByteOff(s, k) = off

\* &s[a..b]; the caller checks SliceOk first (the index operation panics
\* otherwise)
SliceOk(s, a, b) == a <= b /\ is_char_boundary(s, a) /\ is_char_boundary(s, b)
Slice(s, a, b) == SubSeq(s, CharIdx(s, a), CharIdx(s, b) - 1)
SliceFrom(s, a) == SubSeq(s, CharIdx(s, a), Len(s))

starts_with(s, p) == Len(s) >= Len(p) /\ SubSeq(s, 1, Len(p)) = p

\* ------------------------------------------------------------------------
\* Option<T>
\* ------------------------------------------------------------------------
Some(x) == [some |-> TRUE, v |-> x]
NoChar == [some |-> FALSE, v |-> ""]
NoStr == [some |-> FALSE, v |-> <<>>]
NoName == [some |-> FALSE, v |-> ""]

\* ------------------------------------------------------------------------
\* src/token/mod.rs
\* ------------------------------------------------------------------------
SPEC == <<"=", "+", "-", "!", "*", "/", "<", ">", ",", ";", "(", ")", "{", "}">>

SPEC_PATTERNS == << <<"=", "=">>, <<"!", "=">> >>

TOKEN_REGEXP == <<"^[A-Za-z]\\w*", "^\\d+">>

KEYWORDS ==
    << <<"f", "n">>, <<"l", "e", "t">>, <<"t", "r", "u", "e">>,
       <<"f", "a", "l", "s", "e">>, <<"i", "f">>, <<"e", "l", "s", "e">>,
       <<"r", "e", "t", "u", "r", "n">> >>

\* enum TokenType: Spec(Spec) | Literal(Literal) | Keyword(Keyword) | Illegal
TokenType(tag, v) == [tag |-> tag, v |-> v]
Illegal == [tag |-> "Illegal", v |-> "Illegal"]

\* struct TokenPos { token_type, end }
TokenPos(token_type, end) == [token_type |-> token_type, end |-> end]
NoPos == [some |-> FALSE, v |-> TokenPos(Illegal, 0)]

\* struct Token { token_type, literal, line }
Token(token_type, literal, line) ==
    [token_type |-> token_type, literal |-> literal, line |-> line]
NoToken == [some |-> FALSE, v |-> Token(Illegal, NoStr, 0)]

\* Spec::from_int with the arms of Lt and Gt exchanged
Spec_from_int_swapped(i) ==
    CASE i = 0 -> Some("Assign")
      [] i = 1 -> Some("Plus")
      [] i = 2 -> Some("Minus")
      [] i = 3 -> Some("Bang")
      [] i = 4 -> Some("Asterisk")
      [] i = 5 -> Some("Slash")
      [] i = 6 -> Some("Gt")
      [] i = 7 -> Some("Lt")
      [] i = 8 -> Some("Comma")
      [] i = 9 -> Some("Semicolon")
      [] i = 10 -> Some("Lparen")
      [] i = 11 -> Some("Rparen")
      [] i = 12 -> Some("Lbrace")
      [] i = 13 -> Some("Rbrace")
      [] i = 14 -> Some("Equal")
      [] i = 15 -> Some("NotEqual")
      [] OTHER -> NoName

Spec_from_int(i) ==
    CASE i = 0 -> Some("Assign")
      [] i = 1 -> Some("Plus")
      [] i = 2 -> Some("Minus")
      [] i = 3 -> Some("Bang")
      [] i = 4 -> Some("Asterisk")
      [] i = 5 -> Some("Slash")
      [] i = 6 -> Some("Lt")
      [] i = 7 -> Some("Gt")
      [] i = 8 -> Some("Comma")
      [] i = 9 -> Some("Semicolon")
      [] i = 10 -> Some("Lparen")
      [] i = 11 -> Some("Rparen")
      [] i = 12 -> Some("Lbrace")
      [] i = 13 -> Some("Rbrace")
      [] i = 14 -> Some("Equal")
      [] i = 15 -> Some("NotEqual")
      [] OTHER -> NoName

Literal_from_int(i) ==
    CASE i = 0 -> Some("Ident")
      [] i = 1 -> Some("Int")
      [] OTHER -> NoName

Keyword_from_int(i) ==
    CASE i = 0 -> Some("Function")
      [] i = 1 -> Some("Let")
      [] i = 2 -> Some("True")
      [] i = 3 -> Some("False")
      [] i = 4 -> Some("If")
      [] i = 5 -> Some("Else")
      [] i = 6 -> Some("Return")
      [] OTHER -> NoName

\* TokenPos::token
TokenPos_token(tp, literal, line) == Token(tp.token_type, literal, line)

\* Option<name>::map(|it| TokenPos::new(TokenType::tag(it), end))
MapTokenPos(opt, tag, end) ==
    IF opt.some THEN Some(TokenPos(TokenType(tag, opt.v), end)) ELSE NoPos

\* SPEC.find(ch): index of ch in SPEC (0-based), or -1
SPEC_find(ch) ==
    IF \E i \in 1..Len(SPEC) : SPEC[i] = ch
    THEN (CHOOSE i \in 1..Len(SPEC) : SPEC[i] = ch) - 1
    ELSE -1

\* the first pattern of SPEC_PATTERNS (0-based index >= j) that the text
\* starts with, or -1
RECURSIVE FirstPattern(_, _)
FirstPattern(text, j) ==
    IF j >= Len(SPEC_PATTERNS) THEN -1
    ELSE IF starts_with(text, SPEC_PATTERNS[j + 1]) THEN j
    ELSE FirstPattern(text, j + 1)

\* match_spec ending every match two bytes after its start
match_spec_wide(input, start, ch) ==
    LET i == SPEC_find(ch) IN
    IF i >= 0
    THEN LET j == FirstPattern(SliceFrom(input, start), 0) IN
         IF j >= 0
         THEN MapTokenPos(Spec_from_int(Len(SPEC) + j), "Spec",
                          start + str_len(SPEC_PATTERNS[j + 1]))
         ELSE MapTokenPos(Spec_from_int(i), "Spec",
                          start + str_len(SPEC_PATTERNS[1]))
    ELSE NoPos

\* match_spec without the loop over SPEC_PATTERNS
match_spec_single(input, start, ch) ==
    LET i == SPEC_find(ch) IN
    IF i >= 0
    THEN MapTokenPos(Spec_from_int(i), "Spec", start + len_utf8(ch))
    ELSE NoPos

\* TokenType::match_spec
match_spec(input, start, ch) ==
    LET i == SPEC_find(ch) IN
    IF i >= 0
    THEN LET j == FirstPattern(SliceFrom(input, start), 0) IN
         IF j >= 0
         THEN MapTokenPos(Spec_from_int(Len(SPEC) + j), "Spec",
                          start + str_len(SPEC_PATTERNS[j + 1]))
         ELSE MapTokenPos(Spec_from_int(i), "Spec", start + len_utf8(ch))
    ELSE NoPos

\* length in characters of the longest prefix of text, from character k on,
\* whose characters all satisfy the class
RECURSIVE RunW(_, _)
RunW(text, k) ==
    IF k <= Len(text) /\ Regex_w(text[k]) THEN RunW(text, k + 1) ELSE k - 1

RECURSIVE RunD(_, _)
RunD(text, k) ==
    IF k <= Len(text) /\ Regex_d(text[k]) THEN RunD(text, k + 1) ELSE k - 1

\* Regex_find with lazy repetitions (\w*? and \d+?): the shortest match
Regex_find_lazy(pattern, text) ==
    IF pattern = "^[A-Za-z]\\w*"
    THEN IF text # <<>> /\ text[1] \in AsciiLetter
         THEN len_utf8(text[1])
         ELSE -1
    ELSE IF text # <<>> /\ Regex_d(text[1])
         THEN len_utf8(text[1])
         ELSE -1

\* Regex::find on the two patterns of TOKEN_REGEXP: the byte offset of the
\* end of the (greedy, anchored) match in text, or -1
Regex_find(pattern, text) ==
    IF pattern = "^[A-Za-z]\\w*"
    THEN IF text # <<>> /\ text[1] \in AsciiLetter
         THEN str_len(SubSeq(text, 1, RunW(text, 2)))
         ELSE -1
    ELSE IF RunD(text, 1) >= 1
         THEN str_len(SubSeq(text, 1, RunD(text, 1)))
         ELSE -1

\* FirstKeyword comparing with starts_with instead of equality
RECURSIVE FirstKeyword_prefix(_, _)
FirstKeyword_prefix(word, j) ==
    IF j >= Len(KEYWORDS) THEN -1
    ELSE IF starts_with(word, KEYWORDS[j + 1]) THEN j
    ELSE FirstKeyword_prefix(word, j + 1)

\* the first keyword (0-based index >= j) equal to the word, or -1
RECURSIVE FirstKeyword(_, _)
FirstKeyword(word, j) ==
    IF j >= Len(KEYWORDS) THEN -1
    ELSE IF KEYWORDS[j + 1] = word THEN j
    ELSE FirstKeyword(word, j + 1)

\* the closure returned by TokenType::literal_token_matcher, from the
\* i-th (0-based) regexp on
RECURSIVE literal_token_matcher(_, _, _)
literal_token_matcher(input, start, i) ==
    IF i >= Len(TOKEN_REGEXP) THEN NoPos
    ELSE LET m_end == Regex_find(TOKEN_REGEXP[i + 1], SliceFrom(input, start)) IN
         IF m_end >= 0
         THEN LET end == start + m_end
                  j == FirstKeyword(Slice(input, start, end), 0)
              IN IF j >= 0
                 THEN MapTokenPos(Keyword_from_int(j), "Keyword", end)
                 ELSE MapTokenPos(Literal_from_int(i), "Literal", start + m_end)
         ELSE literal_token_matcher(input, start, i + 1)

\* ------------------------------------------------------------------------
\* src/lexer/mod.rs
\* ------------------------------------------------------------------------
\* Lexer::match_token
match_token(input, start) == literal_token_matcher(input, start, 0)

\* SkipFrom advancing pos past the character it stops at as well
RECURSIVE SkipFrom_eager(_, _, _)
SkipFrom_eager(input, self, k) ==
    IF k > Len(input) THEN [self |-> self, ch |-> NoChar]
    ELSE LET ch == input[k] IN
         IF is_whitespace(ch)
         THEN SkipFrom_eager(input,
                             [pos |-> self.pos + len_utf8(ch),
                              current_line |-> IF ch = "\n"
                                               THEN self.current_line + 1
                                               ELSE self.current_line],
                             k + 1)
         ELSE [self |-> [self EXCEPT !.pos = @ + len_utf8(ch)],
               ch |-> Some(ch)]

\* SkipFrom counting a line for every whitespace character
RECURSIVE SkipFrom_anyline(_, _, _)
SkipFrom_anyline(input, self, k) ==
    IF k > Len(input) THEN [self |-> self, ch |-> NoChar]
    ELSE LET ch == input[k] IN
         IF is_whitespace(ch)
         THEN SkipFrom_anyline(input,
                               [pos |-> self.pos + len_utf8(ch),
                                current_line |-> self.current_line + 1],
                               k + 1)
         ELSE [self |-> self, ch |-> Some(ch)]

\* LexerIterator::skip_whitespaces, from the k-th character on: the
\* closure given to find advances pos over every whitespace character and
\* counts the newlines; find returns the first other character
RECURSIVE SkipFrom(_, _, _)
SkipFrom(input, self, k) ==
    IF k > Len(input) THEN [self |-> self, ch |-> NoChar]
    ELSE LET ch == input[k] IN
         IF is_whitespace(ch)
         THEN SkipFrom(input,
                       [pos |-> self.pos + len_utf8(ch),
                        current_line |-> IF ch = "\n"
                                         THEN self.current_line + 1
                                         ELSE self.current_line],
                       k + 1)
         ELSE [self |-> self, ch |-> Some(ch)]

skip_whitespaces(input, self) == SkipFrom(input, self, CharIdx(input, self.pos))

\* produce slicing the text to the end of the input
produce_tail(input, self, tp) ==
    LET start == self.pos IN
    [self |-> [self EXCEPT !.pos = tp.end],
     token |-> IF tp.token_type.tag = "Literal"
               THEN TokenPos_token(tp, Some(SliceFrom(input, start)),
                                   self.current_line)
               ELSE TokenPos_token(tp, NoStr, self.current_line)]

\* produce attaching the text to a token of any type
produce_alltext(input, self, tp) ==
    LET start == self.pos IN
    [self |-> [self EXCEPT !.pos = tp.end],
     token |-> TokenPos_token(tp, Some(Slice(input, start, tp.end)),
                              self.current_line)]

\* produce leaving the offset where the token started
produce_stay(input, self, tp) ==
    LET start == self.pos IN
    [self |-> self,
     token |-> IF tp.token_type.tag = "Literal"
               THEN TokenPos_token(tp, Some(Slice(input, start, tp.end)),
                                   self.current_line)
               ELSE TokenPos_token(tp, NoStr, self.current_line)]

\* LexerIterator::produce
produce(input, self, tp) ==
    LET start == self.pos IN
    [self |-> [self EXCEPT !.pos = tp.end],
     token |-> IF tp.token_type.tag = "Literal"
               THEN TokenPos_token(tp, Some(Slice(input, start, tp.end)),
                                   self.current_line)
               ELSE TokenPos_token(tp, NoStr, self.current_line)]

\* illegal_or_none advancing past the offending character only
illegal_or_none_resync(input, self) ==
    IF self.pos < str_len(input)
    THEN [self |-> [self EXCEPT
                      !.pos = @ + len_utf8(input[CharIdx(input, self.pos)])],
          ret |-> Some(Token(Illegal, NoStr, self.current_line))]
    ELSE [self |-> self, ret |-> NoToken]

\* illegal_or_none testing pos <= len
illegal_or_none_le(input, self) ==
    IF self.pos <= str_len(input)
    THEN [self |-> [self EXCEPT !.pos = str_len(input)],
          ret |-> Some(Token(Illegal, NoStr, self.current_line))]
    ELSE [self |-> self, ret |-> NoToken]

\* illegal_or_none dropping the offending character and yielding nothing
illegal_or_none_drop(input, self) ==
    IF self.pos < str_len(input)
    THEN [self |-> [self EXCEPT
                      !.pos = @ + len_utf8(input[CharIdx(input, self.pos)])],
          ret |-> NoToken]
    ELSE [self |-> self, ret |-> NoToken]

\* LexerIterator::illegal_or_none
illegal_or_none(input, self) ==
    IF self.pos < str_len(input)
    THEN [self |-> [self EXCEPT !.pos = str_len(input)],
          ret |-> Some(Token(Illegal, NoStr, self.current_line))]
    ELSE [self |-> self, ret |-> NoToken]

\* Classify without the fall-back to match_token
Classify_speconly(input, start, ch) ==
    IF ch.some THEN match_spec(input, start, ch.v) ELSE NoPos

\* the match the scanner acts on: match_spec at the character found,
\* or else match_token at the same offset
Classify(input, start, ch) ==
    LET m == IF ch.some THEN match_spec(input, start, ch.v) ELSE NoPos IN
    IF m.some THEN m ELSE match_token(input, start)

\* LexerIterator::next_token; start is the offset after skip_whitespaces
next_token(input, self) ==
    LET sk == skip_whitespaces(input, self)
        m == Classify(input, sk.self.pos, sk.ch)
    IN IF m.some
       THEN LET p == produce(input, sk.self, m.v) IN
            [self |-> p.self, ret |-> Some(p.token), start |-> sk.self.pos]
       ELSE LET q == illegal_or_none(input, sk.self) IN
            [self |-> q.self, ret |-> q.ret, start |-> sk.self.pos]

\* the index operations of one next_token call that would panic: the
\* slices input[pos..] and, for a Literal, input[start..end]
Panics(input, self) ==
    \/ self.pos > str_len(input)
    \/ ~is_char_boundary(input, self.pos)
    \/ LET sk == skip_whitespaces(input, self)
           m == Classify(input, sk.self.pos, sk.ch)
       IN m.some /\ m.v.token_type.tag = "Literal"
                 /\ ~SliceOk(input, sk.self.pos, m.v.end)

\* ------------------------------------------------------------------------
\* Inputs
\* ------------------------------------------------------------------------
\* the inputs of the tests of src/lexer/mod.rs
TEST_ILLEGAL_CODE ==
    <<"-", "6", "6", " ", "U+0431", "U+0440", "U+0440", "U+0440">>
TEST_1_CODE ==
    <<"=", "+", "(", ")", "{", "}", ",", ";">>
TEST_2_CODE ==
    <<"l", "e", "t", " ", "x", " ", "=", " ", "5", " ", "+", " ", "5", ";">>
TEST_3_CODE ==
    <<"l", "e", "t", " ", "f", "i", "v", "e", " ", "=", " ", "5", ";", " ",
      "\n", "l", "e", "t", " ", "t", "e", "n", " ", "=", " ", "1", "0",
      ";", " ", "\n", "\n", "l", "e", "t", " ", "a", "d", "d", " ", "=",
      " ", "f", "n", "(", "x", ",", " ", "y", ")", " ", "{", " ", "\n",
      "x", " ", "+", " ", "y", ";", " ", "\n", "}", ";", " ", "\n", "l",
      "e", "t", " ", "r", "e", "s", "u", "l", "t", " ", "=", " ", "a", "d",
      "d", "(", "f", "i", "v", "e", ",", " ", "t", "e", "n", ")", ";">>
TEST_4_CODE ==
    <<"l", "e", "t", " ", "f", "i", "v", "e", " ", "=", " ", "5", ";", " ",
      "\n", "l", "e", "t", " ", "t", "e", "n", " ", "=", " ", "1", "0",
      ";", " ", "\n", "l", "e", "t", " ", "a", "d", "d", " ", "=", " ",
      "f", "n", "(", "x", ",", " ", "y", ")", " ", "{", " ", "\n", "x",
      " ", "+", " ", "y", ";", " ", "\n", "}", ";", " ", "\n", "l", "e",
      "t", " ", "r", "e", "s", "u", "l", "t", " ", "=", " ", "a", "d", "d",
      "(", "f", "i", "v", "e", ",", " ", "t", "e", "n", ")", ";", " ",
      "\n", "!", "-", "/", "*", "5", ";", " ", "\n", "5", " ", "<", " ",
      "1", "0", " ", ">", " ", "5", ";", " ", "\n", "i", "f", " ", "(",
      "5", " ", "=", "=", " ", "1", "0", ")", " ", "{", " ", "\n", "r",
      "e", "t", "u", "r", "n", " ", "t", "r", "u", "e", ";", " ", "\n",
      "}", " ", "e", "l", "s", "e", " ", "{", " ", "\n", "r", "e", "t",
      "u", "r", "n", " ", "f", "a", "l", "s", "e", ";", " ", "\n", "}">>
TestInputs ==
    {TEST_ILLEGAL_CODE, TEST_1_CODE, TEST_2_CODE, TEST_3_CODE, TEST_4_CODE}

\* words and operators around the keyword and symbol tables
ExampleInputs ==
    {SPEC,
     <<"l", "e", "t", "t", "u", "c", "e">>,
     <<"L", "e", "t">>,
     <<"l", "e", "t", "5">>,
     <<"5", "l", "e", "t">>,
     <<"f", "n">>,
     <<"l", "e", "t">>,
     <<"t", "r", "u", "e">>,
     <<"f", "a", "l", "s", "e">>,
     <<"i", "f">>,
     <<"e", "l", "s", "e">>,
     <<"r", "e", "t", "u", "r", "n">>,
     <<"r", "e", "t", "u", "r", "n", "s">>,
     <<"t", "r", "u", "e", "f", "a", "l", "s", "e">>,
     <<"e", "l", "s", "e", "_">>,
     <<"=", "=", "=">>,
     <<"=", " ", "=">>,
     <<"!", "=", "=">>,
     <<"a", "\n", "\n", "b">>,
     <<"l", "e", "t", " ", "U+0431", "=", "5">>,
     <<"x", "U+0663", " ", "U+0663", "5">>,
     <<"_", "l", "e", "t">>,
     <<" ", "\n", "\t", "\r", "U+00A0">>,
     <<"i", "f", " ", "i", "f", "f", " ", "f", "n", " ", "L", "e", "t", " ",
       "l", "e", "t", "5">>,
     <<"l", "e", "t", " ", "x", " ", "=", " ", "5", ";", "\n", "U+20AC",
       " ", "y">>}

\* the characters of the enumerated inputs: whitespace of one and two
\* bytes, symbols, letters spelling the keywords if and fn, a digit, the
\* underscore, a non-ASCII letter, a non-ASCII digit and a character of
\* no class
Alphabet ==
    {" ", "\n", "U+00A0", "=", "!", "+", "i", "f", "n", "I", "5", "_",
     "U+0431", "U+0663", "U+20AC"}

Inputs ==
    UNION {[1..n -> Alphabet] : n \in 0..MaxLen} \cup TestInputs \cup ExampleInputs

\* ------------------------------------------------------------------------
\* The scanner as a state machine
\* ------------------------------------------------------------------------
\* input, pos, current_line: the fields of LexerIterator
\* panicked: an index operation of a request has panicked
\* out: the tokens yielded so far, each with the offsets at which it
\*      started (after the whitespace) and ended
\* ndone: the number of requests that yielded nothing
\* other: a second LexerIterator made by tokenize from the same Lexer, with
\*        the same fields and records; NoOther when the program has none
VARIABLES input, pos, current_line, panicked, out, ndone, other

vars == <<input, pos, current_line, panicked, out, ndone, other>>

NoOther ==
    [live |-> FALSE, input |-> <<>>, pos |-> 0, current_line |-> 0,
     panicked |-> FALSE, out |-> <<>>, ndone |-> 0]

\* Lexer::tokenize
Init ==
    /\ input \in Inputs
    /\ pos = 0
    /\ current_line = 0
    /\ panicked = FALSE
    /\ out = <<>>
    /\ ndone = 0
    /\ other = NoOther

\* one request: LexerIterator::next_token (Iterator::next)
NextToken ==
    /\ ~panicked
    /\ ndone < MaxDone
    /\ LET self == [pos |-> pos, current_line |-> current_line] IN
       IF Panics(input, self)
       THEN /\ panicked' = TRUE
            /\ UNCHANGED <<input, pos, current_line, out, ndone, other>>
       ELSE LET r == next_token(input, self) IN
            /\ pos' = r.self.pos
            /\ current_line' = r.self.current_line
            /\ out' = IF r.ret.some
                      THEN Append(out, [token |-> r.ret.v, start |-> r.start,
                                        end |-> r.self.pos])
                      ELSE out
            /\ ndone' = IF r.ret.some THEN ndone ELSE ndone + 1
            /\ UNCHANGED <<input, panicked, other>>

Next == NextToken

Spec == Init /\ [][Next]_vars

\* ------------------------------------------------------------------------
\* Two scanners of one Lexer, their requests interleaved
\* ------------------------------------------------------------------------
\* longest input of the two scanners, in characters
MaxLenTwo == 2

\* a newline, a symbol that also starts a two-character one, a letter and
\* a character of no class
AlphabetTwo == {"\n", "=", "i", "U+20AC"}

InputsTwo == UNION {[1..n -> AlphabetTwo] : n \in 0..MaxLenTwo}

\* two calls of Lexer::tokenize on the same Lexer
InitTwo ==
    /\ input \in InputsTwo
    /\ pos = 0
    /\ current_line = 0
    /\ panicked = FALSE
    /\ out = <<>>
    /\ ndone = 0
    /\ \E i2 \in InputsTwo : other = [NoOther EXCEPT !.live = TRUE, !.input = i2]

\* the record of the second scanner after one request
StepOther(o) ==
    LET self == [pos |-> o.pos, current_line |-> o.current_line] IN
    IF Panics(o.input, self)
    THEN [o EXCEPT !.panicked = TRUE]
    ELSE LET r == next_token(o.input, self) IN
         [o EXCEPT !.pos = r.self.pos,
                   !.current_line = r.self.current_line,
                   !.out = IF r.ret.some
                           THEN Append(@, [token |-> r.ret.v, start |-> r.start,
                                           end |-> r.self.pos])
                           ELSE @,
                   !.ndone = IF r.ret.some THEN @ ELSE @ + 1]

\* a second scanner that keeps its offset in the Lexer both scanners share
NextTokenOther_shared ==
    /\ other.live
    /\ ~other.panicked
    /\ other.ndone < MaxDone
    /\ other' = StepOther(other)
    /\ pos' = other'.pos
    /\ UNCHANGED <<input, current_line, panicked, out, ndone>>

\* one request on the second scanner: LexerIterator::next_token
NextTokenOther ==
    /\ other.live
    /\ ~other.panicked
    /\ other.ndone < MaxDone
    /\ other' = StepOther(other)
    /\ UNCHANGED <<input, pos, current_line, panicked, out, ndone>>

NextTwo == NextToken \/ NextTokenOther

TwoSpec == InitTwo /\ [][NextTwo]_vars

\* ------------------------------------------------------------------------
\* Vocabulary of the properties
\* ------------------------------------------------------------------------
Kind(tag, v) == [tag |-> tag, v |-> v]
IsIllegal(rec) == rec.token.token_type.tag = "Illegal"
IsIdent(rec) == rec.token.token_type = Kind("Literal", "Ident")
IsInt(rec) == rec.token.token_type = Kind("Literal", "Int")

\* the kinds and texts yielded so far
Yielded == [i \in 1..Len(out) |-> <<out[i].token.token_type.v, out[i].token.literal.v>>]
\* the scanner has answered a request with nothing
Exhausted == ndone > 0

\* the character that starts at a byte offset, "" at the end of the input
CharAtOff(off) ==
    IF off < str_len(input) THEN input[CharIdx(input, off)] ELSE ""
\* the input between two byte offsets
Span(a, b) ==
    [k \in 1..(CharIdx(input, b) - CharIdx(input, a)) |->
        input[CharIdx(input, a) + k - 1]]
\* the number of newline characters strictly before a byte offset
NewlinesBefore(off) ==
    Cardinality({k \in 1..Len(input) : input[k] = "\n" /\ ByteOff(input, k) < off})

\* ------------------------------------------------------------------------
\* C1
\* ------------------------------------------------------------------------
\* C1: an Illegal token is only ever the last token yielded (so there is at
\* most one and no request after it yields a token); once it is yielded the
\* offset is the length of the input; "-66 <Cyrillic word>" yields exactly
\* Minus, Int "66", Illegal.
C1_IllegalAndAbort ==
    /\ \A i \in 1..Len(out) :
          IsIllegal(out[i]) =>
             /\ i = Len(out)
             /\ out[i].end = str_len(input)
             /\ pos = str_len(input)
    /\ (input = TEST_ILLEGAL_CODE /\ Exhausted) =>
          Yielded = << <<"Minus", <<>> >>, <<"Int", <<"6", "6">> >>,
                       <<"Illegal", <<>> >> >>

\* an Illegal was yielded while characters after the offending one were
\* still unread, and every later request has been made
C1_Witness ==
    /\ Len(out) >= 2
    /\ IsIllegal(out[Len(out)])
    /\ out[Len(out)].start + len_utf8(CharAtOff(out[Len(out)].start)) < str_len(input)
    /\ ndone = MaxDone

\* ------------------------------------------------------------------------
\* C2
\* ------------------------------------------------------------------------
\* C2: the line of every yielded token is the number of newline characters
\* before the token's first character, and the lines never decrease along
\* the yielded sequence.
C2_LineIsNewlineCount ==
    /\ \A i \in 1..Len(out) : out[i].token.line = NewlinesBefore(out[i].start)
    /\ \A i \in 1..Len(out) : \A j \in i..Len(out) :
          out[i].token.line <= out[j].token.line

\* a token on a later line, after a whitespace character that is no newline
C2_Witness ==
    \E i \in 1..Len(out) :
       /\ out[i].token.line >= 1
       /\ \E k \in 1..Len(input) :
             /\ is_whitespace(input[k]) /\ input[k] # "\n"
             /\ ByteOff(input, k) < out[i].start

\* ------------------------------------------------------------------------
\* C3
\* ------------------------------------------------------------------------
\* C3: the text of every Literal(Ident) token is one ASCII letter followed
\* only by ASCII letters, ASCII digits or underscores.
C3_IdentIsAscii ==
    \A i \in 1..Len(out) :
       IsIdent(out[i]) =>
          LET text == out[i].token.literal.v IN
          /\ Len(text) >= 1
          /\ text[1] \in AsciiLetter
          /\ \A k \in 2..Len(text) :
                text[k] \in AsciiLetter \cup AsciiDigit \cup {"_"}

\* ------------------------------------------------------------------------
\* C4
\* ------------------------------------------------------------------------
\* C4: the text of every Literal(Int) token consists of ASCII digits only.
C4_IntIsAscii ==
    \A i \in 1..Len(out) :
       IsInt(out[i]) =>
          LET text == out[i].token.literal.v IN
          /\ Len(text) >= 1
          /\ \A k \in 1..Len(text) : text[k] \in AsciiDigit

\* ------------------------------------------------------------------------
\* C5
\* ------------------------------------------------------------------------
\* the keyword table of the claim
KeywordOf(word) ==
    CASE word = <<"f", "n">> -> "Function"
      [] word = <<"l", "e", "t">> -> "Let"
      [] word = <<"t", "r", "u", "e">> -> "True"
      [] word = <<"f", "a", "l", "s", "e">> -> "False"
      [] word = <<"i", "f">> -> "If"
      [] word = <<"e", "l", "s", "e">> -> "Else"
      [] word = <<"r", "e", "t", "u", "r", "n">> -> "Return"
      [] OTHER -> ""

\* C5: a token that starts at an ASCII letter (where the identifier pattern
\* matches) is the Keyword of the table when its whole span spells a
\* reserved word, and Literal(Ident) otherwise; no other token is a Keyword;
\* lettuce, Let and let5 are each one Literal(Ident).
C5_KeywordPrecedence ==
    /\ \A i \in 1..Len(out) :
          LET word == Span(out[i].start, out[i].end) IN
          IF CharAtOff(out[i].start) \in AsciiLetter
          THEN out[i].token.token_type =
                  IF KeywordOf(word) # ""
                  THEN Kind("Keyword", KeywordOf(word))
                  ELSE Kind("Literal", "Ident")
          ELSE out[i].token.token_type.tag # "Keyword"
    /\ (Exhausted /\ input \in {<<"l", "e", "t", "t", "u", "c", "e">>,
                                <<"L", "e", "t">>, <<"l", "e", "t", "5">>}) =>
          Yielded = << <<"Ident", input>> >>

\* a keyword, an identifier that begins with a keyword and a capitalised
\* identifier were all yielded
C5_Witness ==
    /\ \E i \in 1..Len(out) : out[i].token.token_type.tag = "Keyword"
    /\ \E i \in 1..Len(out) :
          IsIdent(out[i]) /\ out[i].token.literal.v[1] \in AsciiUpper
    /\ \E i \in 1..Len(out) :
          /\ IsIdent(out[i])
          /\ \E j \in 1..Len(KEYWORDS) :
                starts_with(out[i].token.literal.v, KEYWORDS[j])

\* ------------------------------------------------------------------------
\* C6
\* ------------------------------------------------------------------------
\* C6: a token that starts at "=" followed by "=" is one Equal, one that
\* starts at "!" followed by "=" is one NotEqual, each two bytes long;
\* Assign and Bang are yielded only when the next character is not "=";
\* "==" is Equal, "===" is Equal then Assign, "= =" is Assign twice.
C6_TwoCharOperators ==
    /\ \A i \in 1..Len(out) :
          LET c1 == CharAtOff(out[i].start)
              c2 == CharAtOff(out[i].start + 1)
              ty == out[i].token.token_type
          IN /\ (c1 = "=" /\ c2 = "=") =>
                   (ty = Kind("Spec", "Equal") /\ out[i].end = out[i].start + 2)
             /\ (c1 = "!" /\ c2 = "=") =>
                   (ty = Kind("Spec", "NotEqual") /\ out[i].end = out[i].start + 2)
             /\ ty \in {Kind("Spec", "Assign"), Kind("Spec", "Bang")} => c2 # "="
    /\ (Exhausted /\ input = <<"=", "=">>) => Yielded = << <<"Equal", <<>> >> >>
    /\ (Exhausted /\ input = <<"=", "=", "=">>) =>
          Yielded = << <<"Equal", <<>> >>, <<"Assign", <<>> >> >>
    /\ (Exhausted /\ input = <<"=", " ", "=">>) =>
          Yielded = << <<"Assign", <<>> >>, <<"Assign", <<>> >> >>

\* an Equal or NotEqual directly followed by an Assign
C6_Witness ==
    \E i \in 1..(Len(out) - 1) :
       /\ out[i].token.token_type.v \in {"Equal", "NotEqual"}
       /\ out[i + 1].token.token_type.v = "Assign"
       /\ out[i + 1].start = out[i].end

\* ------------------------------------------------------------------------
\* C7
\* ------------------------------------------------------------------------
\* C7: the text of every Literal token is the input from the offset at
\* which the token started (after the whitespace) to the offset the scanner
\* advanced to; it holds no whitespace and ends before the next token
\* starts.
C7_LiteralFidelity ==
    \A i \in 1..Len(out) :
       out[i].token.token_type.tag = "Literal" =>
          /\ out[i].token.literal = Some(Span(out[i].start, out[i].end))
          /\ out[i].start < out[i].end
          /\ \A k \in 1..Len(out[i].token.literal.v) :
                ~is_whitespace(out[i].token.literal.v[k])
          /\ i < Len(out) => out[i].end <= out[i + 1].start

\* a Literal yielded after skipped whitespace and followed by whitespace
\* and another token
C7_Witness ==
    \E i \in 1..(Len(out) - 1) :
       /\ out[i].token.token_type.tag = "Literal"
       /\ out[i].start > 0
       /\ is_whitespace(input[CharIdx(input, out[i].start) - 1])
       /\ out[i].end < out[i + 1].start

\* ------------------------------------------------------------------------
\* C8
\* ------------------------------------------------------------------------
\* C8: a yielded token carries a text exactly when its type is
\* Literal(Ident) or Literal(Int); Spec, Keyword and Illegal tokens carry
\* none.
C8_TextIffLiteral ==
    \A i \in 1..Len(out) :
       /\ out[i].token.literal.some <=>
             out[i].token.token_type \in
                {Kind("Literal", "Ident"), Kind("Literal", "Int")}
       /\ out[i].token.token_type.tag \in {"Spec", "Keyword", "Illegal"} =>
             out[i].token.literal = NoStr

\* a Spec, a Keyword, a Literal and an Illegal token were all yielded
C8_Witness ==
    \A tag \in {"Spec", "Keyword", "Literal", "Illegal"} :
       \E i \in 1..Len(out) : out[i].token.token_type.tag = tag

\* ------------------------------------------------------------------------
\* C9
\* ------------------------------------------------------------------------
\* C9: on an input of whitespace characters only (the empty input
\* included) no token is ever yielded, Illegal included, and no request
\* faults: every request yields nothing.
C9_WhitespaceOnlyYieldsNothing ==
    (\A k \in 1..Len(input) : is_whitespace(input[k])) =>
       (out = <<>> /\ ~panicked)

\* a request on an input of several whitespace characters, a newline and a
\* two-byte one among them, has yielded nothing
C9_Witness ==
    /\ Len(input) >= 2
    /\ \A k \in 1..Len(input) : is_whitespace(input[k])
    /\ \E k \in 1..Len(input) : input[k] = "\n"
    /\ \E k \in 1..Len(input) : len_utf8(input[k]) = 2
    /\ Exhausted

\* ------------------------------------------------------------------------
\* C10
\* ------------------------------------------------------------------------
\* C10: once a request has yielded nothing, a further request yields
\* nothing again and leaves the offset and the line counter as they were.
C10_DoneIsAbsorbing ==
    [][Exhausted =>
          /\ out' = out
          /\ ndone' = ndone + 1
          /\ pos' = pos
          /\ current_line' = current_line
          /\ ~panicked']_vars

\* a request was made after the scanner had yielded nothing, on an input
\* that had yielded tokens
C10_Witness == ndone >= 2 /\ out # <<>>

\* ------------------------------------------------------------------------
\* C11
\* ------------------------------------------------------------------------
\* C11: every request either yields one token and moves the offset
\* strictly forward, or yields nothing; there are never more yielded tokens
\* than characters in the input, so a consumer that keeps requesting gets
\* nothing after at most as many tokens as the input has characters.
C11_Finiteness ==
    /\ [](Len(out) <= Len(input) /\ pos <= str_len(input) /\ ~panicked)
    /\ [][\/ Len(out') = Len(out) + 1 /\ ndone' = ndone /\ pos' > pos
          \/ out' = out /\ ndone' = ndone + 1]_vars
    /\ [][pos = str_len(input) => ndone' = ndone + 1]_vars

\* the scanner yielded as many tokens as the input has characters, at least
\* two, and then nothing
C11_Witness == Exhausted /\ Len(input) >= 2 /\ Len(out) = Len(input)

\* ------------------------------------------------------------------------
\* C12
\* ------------------------------------------------------------------------
\* the symbol table of the claim
SymbolOf(c) ==
    CASE c = "=" -> "Assign"
      [] c = "+" -> "Plus"
      [] c = "-" -> "Minus"
      [] c = "!" -> "Bang"
      [] c = "*" -> "Asterisk"
      [] c = "/" -> "Slash"
      [] c = "<" -> "Lt"
      [] c = ">" -> "Gt"
      [] c = "," -> "Comma"
      [] c = ";" -> "Semicolon"
      [] c = "(" -> "Lparen"
      [] c = ")" -> "Rparen"
      [] c = "{" -> "Lbrace"
      [] c = "}" -> "Rbrace"
      [] OTHER -> ""

\* C12: a token that starts at one of the 14 punctuation characters, and
\* not at "==" or "!=", has the kind the table gives that character and is
\* one byte long; the 14 characters written without whitespace yield the 14
\* kinds in order.
C12_SymbolTable ==
    /\ \A i \in 1..Len(out) :
          LET c1 == CharAtOff(out[i].start)
              c2 == CharAtOff(out[i].start + 1)
          IN (SymbolOf(c1) # "" /\ ~(c1 \in {"=", "!"} /\ c2 = "=")) =>
                /\ out[i].token.token_type = Kind("Spec", SymbolOf(c1))
                /\ out[i].end = out[i].start + 1
    /\ (Exhausted /\ input = <<"=", "+", "-", "!", "*", "/", "<", ">", ",",
                               ";", "(", ")", "{", "}">>) =>
          [i \in 1..Len(out) |-> out[i].token.token_type.v] =
             <<"Assign", "Plus", "Minus", "Bang", "Asterisk", "Slash", "Lt",
               "Gt", "Comma", "Semicolon", "Lparen", "Rparen", "Lbrace",
               "Rbrace">>

\* all 14 one-character kinds were yielded, two of them from adjacent
\* characters
C12_Witness ==
    /\ \A v \in {"Assign", "Plus", "Minus", "Bang", "Asterisk", "Slash", "Lt",
                 "Gt", "Comma", "Semicolon", "Lparen", "Rparen", "Lbrace",
                 "Rbrace"} :
          \E i \in 1..Len(out) : out[i].token.token_type = Kind("Spec", v)
    /\ \E i \in 1..(Len(out) - 1) :
          /\ out[i].token.token_type.tag = "Spec"
          /\ out[i + 1].token.token_type.tag = "Spec"
          /\ out[i + 1].start = out[i].end

\* ------------------------------------------------------------------------
\* C14
\* ------------------------------------------------------------------------
\* the offset of the first character at or after pos that is no whitespace,
\* the length of the input if there is none
AfterWhitespace ==
    LET ks == {k \in CharIdx(input, pos)..Len(input) : ~is_whitespace(input[k])}
    IN IF ks = {} THEN str_len(input)
       ELSE ByteOff(input, CHOOSE k \in ks : \A m \in ks : k <= m)
\* input remains at the offset and neither matcher matches there
NoMatchAt(off) ==
    /\ off < str_len(input)
    /\ ~match_spec(input, off, CharAtOff(off)).some
    /\ ~match_token(input, off).some
\* the request of this step yields an Illegal token
YieldsIllegal == Len(out') = Len(out) + 1 /\ IsIllegal(out'[Len(out')])

\* C14: a request yields Illegal exactly when, after the whitespace at the
\* offset, input remains and neither match_spec nor match_token matches
\* there; in particular never when only whitespace remains; a leading
\* underscore yields Illegal at once.
C14_IllegalExactlyOnNoMatch ==
    /\ [][YieldsIllegal <=> NoMatchAt(AfterWhitespace)]_vars
    /\ []((Exhausted /\ input = <<"_", "l", "e", "t">>) =>
             Yielded = << <<"Illegal", <<>> >> >>)

\* an Illegal was yielded at an underscore that follows whitespace
C14_Witness ==
    \E i \in 1..Len(out) :
       /\ IsIllegal(out[i])
       /\ CharAtOff(out[i].start) = "_"
       /\ out[i].start > 0
       /\ is_whitespace(input[CharIdx(input, out[i].start) - 1])

\* tokens, then only whitespace up to the end, then nothing: no Illegal
C14_WitnessTrailing ==
    /\ Exhausted
    /\ out # <<>>
    /\ ~IsIllegal(out[Len(out)])
    /\ out[Len(out)].end < str_len(input)

\* ------------------------------------------------------------------------
\* C15
\* ------------------------------------------------------------------------
\* C15: the character right after a yielded Literal(Int) is no ASCII digit;
\* the character right after a yielded Literal(Ident) or Keyword is no
\* ASCII letter, ASCII digit or underscore; let5 is one identifier and 5let
\* is Int "5" then Let.
C15_MaximalMunch ==
    /\ \A i \in 1..Len(out) :
          /\ IsInt(out[i]) => CharAtOff(out[i].end) \notin AsciiDigit
          /\ (IsIdent(out[i]) \/ out[i].token.token_type.tag = "Keyword") =>
                CharAtOff(out[i].end) \notin
                   AsciiLetter \cup AsciiDigit \cup {"_"}
    /\ (Exhausted /\ input = <<"l", "e", "t", "5">>) =>
          Yielded = << <<"Ident", <<"l", "e", "t", "5">> >> >>
    /\ (Exhausted /\ input = <<"5", "l", "e", "t">>) =>
          Yielded = << <<"Int", <<"5">> >>, <<"Let", <<>> >> >>

\* an Int of several digits directly followed by a word
C15_Witness ==
    \E i \in 1..(Len(out) - 1) :
       /\ IsInt(out[i])
       /\ Len(out[i].token.literal.v) >= 2
       /\ out[i + 1].start = out[i].end
       /\ CharAtOff(out[i].end) \in AsciiLetter

\* ------------------------------------------------------------------------
\* C16
\* ------------------------------------------------------------------------
\* C16: the offset always lies between 0 and the length of the input, on a
\* character boundary; every yielded token ends after its start and not
\* beyond the input, on character boundaries; no request panics; the offset
\* and the line counter never decrease.
C16_OffsetsInRange ==
    /\ [](/\ 0 <= pos /\ pos <= str_len(input)
          /\ is_char_boundary(input, pos)
          /\ ~panicked
          /\ \A i \in 1..Len(out) :
                /\ 0 <= out[i].start
                /\ out[i].start < out[i].end
                /\ out[i].end <= str_len(input)
                /\ is_char_boundary(input, out[i].start)
                /\ is_char_boundary(input, out[i].end))
    /\ [][pos' >= pos /\ current_line' >= current_line]_vars

\* a Literal was sliced out behind a character of several bytes and the
\* scanner then reached the end of the input
C16_Witness ==
    /\ Exhausted
    /\ pos = str_len(input)
    /\ \E i \in 1..Len(out) :
          /\ out[i].token.literal.some
          /\ out[i].start > CharIdx(input, out[i].start) - 1

\* ------------------------------------------------------------------------
\* C17
\* ------------------------------------------------------------------------
\* C17: each yielded token starts at or after the end of the one before
\* it (the first at or after offset 0) and every character in between is
\* whitespace; when the scanner is exhausted, every character that is no
\* whitespace and lies before the Illegal position (before the end of the
\* input if there is none) is in the span of exactly one yielded token.
C17_Coverage ==
    LET off == [k \in 1..Len(input) |-> ByteOff(input, k)]
        limit == IF out # <<>> /\ IsIllegal(out[Len(out)])
                 THEN out[Len(out)].start
                 ELSE str_len(input)
    IN /\ \A i \in 1..Len(out) :
             LET prev == IF i = 1 THEN 0 ELSE out[i - 1].end IN
             /\ prev <= out[i].start
             /\ \A k \in 1..Len(input) :
                   (prev <= off[k] /\ off[k] < out[i].start) =>
                      is_whitespace(input[k])
       /\ Exhausted =>
             \A k \in 1..Len(input) :
                (off[k] < limit /\ ~is_whitespace(input[k])) =>
                   Cardinality({i \in 1..Len(out) :
                                  /\ ~IsIllegal(out[i])
                                  /\ out[i].start <= off[k]
                                  /\ off[k] < out[i].end}) = 1

\* two adjacent tokens, whitespace, a third token, and then nothing
C17_Witness ==
    /\ Exhausted
    /\ \E i \in 1..(Len(out) - 2) :
          /\ ~IsIllegal(out[i + 2])
          /\ out[i + 1].start = out[i].end
          /\ out[i + 2].start > out[i + 1].end

\* ------------------------------------------------------------------------
\* C13
\* ------------------------------------------------------------------------
\* the tokens a scanner yields on an input when it alone is asked until it
\* yields nothing, from the state self on
RECURSIVE AloneFrom(_, _)
AloneFrom(inp, self) ==
    LET r == next_token(inp, self) IN
    IF r.ret.some
    THEN <<[token |-> r.ret.v, start |-> r.start, end |-> r.self.pos]>>
            \o AloneFrom(inp, r.self)
    ELSE <<>>
Alone(inp) == AloneFrom(inp, [pos |-> 0, current_line |-> 0])

\* what was yielded so far is the beginning of the sequence yielded alone,
\* and all of it once a request has yielded nothing
AsAlone(inp, yielded, nd) ==
    /\ Len(yielded) <= Len(Alone(inp))
    /\ yielded = SubSeq(Alone(inp), 1, Len(yielded))
    /\ nd > 0 => yielded = Alone(inp)

\* C13: under every interleaving of the requests on two scanners of one
\* Lexer, each scanner yields the tokens it yields when run alone, a request
\* on one scanner leaves every field and record of the other as it was, and
\* no request panics.
C13_ScannerIndependence ==
    /\ [](/\ AsAlone(input, out, ndone)
          /\ AsAlone(other.input, other.out, other.ndone)
          /\ ~panicked /\ ~other.panicked)
    /\ [][\/ other' = other
          \/ <<input, pos, current_line, panicked, out, ndone>>' =
                <<input, pos, current_line, panicked, out, ndone>>]_vars

\* the two scanners, on different inputs, have each yielded a token and
\* then nothing, and stand at different offsets
C13_Witness ==
    /\ other.live
    /\ other.input # input
    /\ out # <<>> /\ other.out # <<>>
    /\ ndone > 0 /\ other.ndone > 0
    /\ pos # other.pos

====
